---- MODULE Spec2Model ----
(***************************************************************************)
(* gzp zstd format adapter (src/src/zstd.rs): the FormatSpec               *)
(* implementation for Zstd (create_compressor, needs_dict, encode, header, *)
(* footer), the synchronous writer (sync_writer) and ZWriter::finish for   *)
(* SyncZ<Encoder<W>>.                                                      *)
(*                                                                         *)
(* A Rust call has three outcomes here: "ok" (Ok(v)), "err" (Err(e)) and   *)
(* "panic" (an unwrap() on None / Err unwinds the caller).                 *)
(***************************************************************************)
EXTENDS Integers, Sequences, FiniteSets, TLC

VARIABLES
    \* --- one compressor driven directly through the adapter (SpecEncode) ---
    encoder,      \* the zstd::bulk::Compressor: [made, level, dict]
    call,         \* the last adapter call and its outcome
    ncalls,       \* number of adapter calls made
    \* --- the synchronous writer SyncZ<Encoder<W>> (SpecSync) ---
    inner,        \* SyncZ.inner : Option<Encoder<W>>
    wop,          \* the last writer operation and its outcome
    callerSink,   \* the sink W as owned by the caller after finish() returned it
    finishCalls,  \* number of finish() calls made on the writer
    finalized,    \* number of times Encoder::finish ran (trailing bytes emitted)
    nwrites,      \* number of write() calls made on the writer
    \* --- the block-parallel stream of the engine (SpecPar) ---
    phase,        \* "init", "running", "finished", "aborted", "failed", "panicked"
    stream,       \* [level, dict] : the stream's compression level and dictionary
    input,        \* the blocks handed out so far, in input order
    comp,         \* comp[w] : the compressor owned by worker w
    holding,      \* holding[w] : index of the block worker w is encoding, 0 if idle
    encoded,      \* encoded[i] : compressed bytes of block i (once encoded)
    done,         \* set of block indices already encoded
    written,      \* number of encoded blocks written downstream
    out,          \* bytes emitted downstream
    log           \* log[i] : the native calls encode made for block i

encVars  == <<encoder, call, ncalls>>
syncVars == <<inner, wop, callerSink, finishCalls, finalized, nwrites>>
parVars  == <<phase, stream, input, comp, holding, encoded, done, written, out, log>>
vars     == <<encVars, syncVars, parVars>>

----------------------------------------------------------------------------
(* Bounds *)

MaxCalls   == 2   \* adapter calls in SpecEncode
MaxWrites  == 2   \* write() calls on the synchronous writer
MaxFinish  == 2   \* finish() calls on the synchronous writer
MaxBlocks  == 2   \* blocks per stream
NWorkers   == 2   \* workers (one compressor each)

----------------------------------------------------------------------------
(* Values *)

\* Compression::level() is a u32; kept as two 16-bit halves so that the
\* whole unsigned 32-bit range is representable.
U32(h, l) == [hi |-> h, lo |-> l]

\* The levels the engine passes: 0, 1, 22, i32::MAX, i32::MAX + 1, u32::MAX.
LevelVals == { U32(0, 0), U32(0, 1), U32(0, 22), U32(32767, 65535),
               U32(32768, 0), U32(65535, 65535) }

\* Levels used for streams and blocks of the parallel path.
ParLevels == { U32(0, 1), U32(0, 22), U32(32768, 0) }

\* Block contents (u8 sequences).
BlockData == { <<>>, <<0>>, <<255>>, <<0, 255>> }

\* Block contents used for the blocks of the parallel path.
ParData == { <<>>, <<255>>, <<0, 255>> }

\* Option<&Bytes>
NoDict      == [some |-> FALSE, v |-> <<>>]
SomeDict(d) == [some |-> TRUE, v |-> d]
DictVals    == { NoDict, SomeDict(<<>>), SomeDict(<<7>>) }

\* Stream configurations (level, dictionary) of the parallel path.
StreamConfigs == { [level |-> U32(0, 1), dict |-> NoDict],
                   [level |-> U32(0, 22), dict |-> SomeDict(<<7>>)],
                   [level |-> U32(32768, 0), dict |-> NoDict] }

\* PassThroughCheck carries no data; the engine's combined value is modelled
\* as the number of bytes it has seen.
CheckVals == 0 .. 4

\* u32 -> i32 : TryInto::try_into
TryInto(lv) ==
    IF lv.hi < 32768
    THEN [ok |-> TRUE, v |-> lv.hi * 65536 + lv.lo]
    ELSE [ok |-> FALSE, v |-> 0]

----------------------------------------------------------------------------
(* The native zstd library, as far as the adapter observes it *)

\* zstd maps level 0 to its default level and clamps levels above the maximum.
NativeLevel(l) == IF l = 0 THEN 3 ELSE IF l > 22 THEN 22 ELSE l

DictID(d) == IF d = <<>> THEN 0 ELSE 1 + d[1]

\* zstd frame magic number 0xFD2FB528, little endian
Magic == <<40, 181, 47, 253>>

\* One complete, self-delimiting frame holding `data`, produced with the
\* given level and dictionary.
Frame(l, d, data) ==
    Magic \o <<DictID(d), NativeLevel(l), Len(data)>>
          \o [i \in 1 .. Len(data) |-> (data[i] + NativeLevel(l) + DictID(d)) % 256]

NoCompressor == [made |-> FALSE, level |-> 0, dict |-> <<>>]

\* Compressor::set_dictionary(level, dict): sets the level parameter, then
\* loads the dictionary; either step may fail.
set_dictionary(c, l, d, cfg) ==
    IF cfg = "level_fails" THEN [ok |-> FALSE, c |-> c]
    ELSE IF cfg = "dict_fails" THEN [ok |-> FALSE, c |-> [c EXCEPT !.level = l]]
    ELSE [ok |-> TRUE, c |-> [made |-> TRUE, level |-> l, dict |-> d]]

\* Compressor::set_compression_level(level): clears any registered dictionary.
set_compression_level(c, l, cfg) == set_dictionary(c, l, <<>>, cfg)

\* Compressor::new(level)
CompressorNew(l, cfg) == set_dictionary(NoCompressor, l, <<>>, cfg)

\* Compressor::compress(input): one frame for exactly this input.
compress(c, data, cmpOk) ==
    IF cmpOk THEN [ok |-> TRUE, out |-> Frame(c.level, c.dict, data)]
    ELSE [ok |-> FALSE, out |-> <<>>]

CfgOutcomes == {"ok", "level_fails", "dict_fails"}

----------------------------------------------------------------------------
(* impl FormatSpec for Zstd *)

create_compressor(compression_level, cfg) ==
    LET conv == TryInto(compression_level) IN
    IF ~conv.ok THEN [tag |-> "panic", c |-> NoCompressor]
    ELSE LET r == CompressorNew(conv.v, cfg) IN
         IF r.ok THEN [tag |-> "ok", c |-> r.c]
         ELSE [tag |-> "err", c |-> NoCompressor]

needs_dict_true == TRUE

needs_dict == FALSE

\* encode that compresses first and re-applies the level afterwards.
encode_configures_late(data, enc, compression_level, dict, is_last, cfg, cmpOk) ==
    LET conv == TryInto(compression_level) IN
    IF ~conv.ok
    THEN [tag |-> "panic", out |-> <<>>, c |-> enc, calls |-> <<>>]
    ELSE
      LET step == IF dict.some THEN "set_dictionary" ELSE "set_compression_level"
          z    == compress(enc, data, cmpOk)
          r    == IF dict.some
                  THEN set_dictionary(enc, conv.v, dict.v, cfg)
                  ELSE set_compression_level(enc, conv.v, cfg)
      IN [tag |-> IF z.ok /\ r.ok THEN "ok" ELSE "err",
          out |-> IF z.ok /\ r.ok THEN z.out ELSE <<>>,
          c |-> r.c, calls |-> <<"compress", step>>]

\* encode with the dictionary branch lost: the level is re-applied whether
\* or not a dictionary was passed.
encode_ignores_dict(data, enc, compression_level, dict, is_last, cfg, cmpOk) ==
    LET conv == TryInto(compression_level) IN
    IF ~conv.ok
    THEN [tag |-> "panic", out |-> <<>>, c |-> enc, calls |-> <<>>]
    ELSE
      LET r == set_compression_level(enc, conv.v, cfg)
      IN IF ~r.ok
         THEN [tag |-> "err", out |-> <<>>, c |-> r.c,
               calls |-> <<"set_compression_level">>]
         ELSE LET z == compress(r.c, data, cmpOk) IN
              [tag |-> IF z.ok THEN "ok" ELSE "err", out |-> z.out, c |-> r.c,
               calls |-> <<"set_compression_level", "compress">>]

encode(data, enc, compression_level, dict, is_last, cfg, cmpOk) ==
    LET conv == TryInto(compression_level) IN
    IF ~conv.ok
    THEN [tag |-> "panic", out |-> <<>>, c |-> enc, calls |-> <<>>]
    ELSE
      LET step == IF dict.some THEN "set_dictionary" ELSE "set_compression_level"
          r    == IF dict.some
                  THEN set_dictionary(enc, conv.v, dict.v, cfg)
                  ELSE set_compression_level(enc, conv.v, cfg)
      IN IF ~r.ok
         THEN [tag |-> "err", out |-> <<>>, c |-> r.c, calls |-> <<step>>]
         ELSE LET z == compress(r.c, data, cmpOk) IN
              IF z.ok
              THEN [tag |-> "ok", out |-> z.out, c |-> r.c,
                    calls |-> <<step, "compress">>]
              ELSE [tag |-> "err", out |-> <<>>, c |-> r.c,
                    calls |-> <<step, "compress">>]

\* header that announces the level in one byte.
header_emits_level(compression_level) == <<compression_level.lo % 256>>

header(compression_level) == <<>>

\* footer that serialises the check value in one byte.
footer_emits_check(check) == <<check % 256>>

footer(check) == <<>>

----------------------------------------------------------------------------
(* zstd::Decoder over a byte slice, read to the end, without a dictionary  *)
(* (as in test_simple): decodes the frames one after the other.            *)

DecodeFail == [ok |-> FALSE, data |-> <<>>]

RECURSIVE Decode(_)
Decode(b) ==
    IF b = <<>> THEN [ok |-> TRUE, data |-> <<>>]
    ELSE IF Len(b) < 7 THEN DecodeFail
    ELSE IF SubSeq(b, 1, 4) # Magic \/ b[5] # 0 \/ Len(b) < 7 + b[7]
    THEN DecodeFail
    ELSE LET n    == b[7]
             body == [i \in 1 .. n |-> (b[7 + i] + 512 - b[6] - b[5]) % 256]
             rest == Decode(SubSeq(b, 8 + n, Len(b)))
         IN IF rest.ok THEN [ok |-> TRUE, data |-> body \o rest.data]
            ELSE DecodeFail

----------------------------------------------------------------------------
(* The native streaming encoder zstd::Encoder<W>, as far as the writer     *)
(* observes it: it owns the sink, takes input, and on finish leaves one    *)
(* complete frame in the sink and gives the sink back.                     *)

NoEncoder == [some |-> FALSE, level |-> 0, buf |-> <<>>, sink |-> <<>>]

\* Encoder::new(writer, level)
EncoderNew(writer, l, newOk) ==
    IF newOk
    THEN [ok |-> TRUE, e |-> [some |-> TRUE, level |-> l, buf |-> <<>>,
                              sink |-> writer]]
    ELSE [ok |-> FALSE, e |-> NoEncoder]

\* Encoder::write_all(data)
EncoderWrite(e, data, ioOk) ==
    IF ioOk THEN [ok |-> TRUE, e |-> [e EXCEPT !.buf = e.buf \o data]]
    ELSE [ok |-> FALSE, e |-> e]

\* Encoder::finish(self) -> io::Result<W> : consumes the encoder; the sink
\* comes back only on success.
EncoderFinish(e, ioOk) ==
    IF ioOk THEN [ok |-> TRUE, w |-> e.sink \o Frame(e.level, <<>>, e.buf)]
    ELSE [ok |-> FALSE, w |-> <<>>]

----------------------------------------------------------------------------
(* impl SyncWriter<W> for Zstd, impl ZWriter<W> for SyncZ<Encoder<W>> *)

sync_writer(writer, compression_level, newOk) ==
    LET conv == TryInto(compression_level) IN
    IF ~conv.ok THEN [tag |-> "panic", e |-> NoEncoder]
    ELSE LET r == EncoderNew(writer, conv.v, newOk) IN
         IF r.ok THEN [tag |-> "ok", e |-> r.e]
         ELSE [tag |-> "panic", e |-> NoEncoder]

Returned(w) == [some |-> TRUE, bytes |-> w]
NotReturned == [some |-> FALSE, bytes |-> <<>>]

\* finish with as_mut() in place of take(): the inner slot stays filled.
finish_without_take(slot, ioOk) ==
    IF ~slot.some
    THEN [tag |-> "panic", inner |-> NoEncoder, ret |-> NotReturned, ran |-> 0]
    ELSE LET r == EncoderFinish(slot, ioOk) IN
         IF r.ok
         THEN [tag |-> "ok", inner |-> slot, ret |-> Returned(r.w), ran |-> 1]
         ELSE [tag |-> "err", inner |-> slot, ret |-> NotReturned, ran |-> 1]

\* finish that hands the sink back without finishing the encoder.
finish_without_trailer(slot, ioOk) ==
    IF ~slot.some
    THEN [tag |-> "panic", inner |-> NoEncoder, ret |-> NotReturned, ran |-> 0]
    ELSE [tag |-> "ok", inner |-> NoEncoder, ret |-> Returned(slot.sink), ran |-> 0]

\* self.inner.take().unwrap().finish()?
finish(slot, ioOk) ==
    IF ~slot.some
    THEN [tag |-> "panic", inner |-> NoEncoder, ret |-> NotReturned, ran |-> 0]
    ELSE LET r == EncoderFinish(slot, ioOk) IN
         IF r.ok
         THEN [tag |-> "ok", inner |-> NoEncoder, ret |-> Returned(r.w), ran |-> 1]
         ELSE [tag |-> "err", inner |-> NoEncoder, ret |-> NotReturned, ran |-> 1]

\* SyncZ::write : forwards to the wrapped encoder; fails once the inner
\* slot has been emptied by finish.
write(slot, data, ioOk) ==
    IF ~slot.some THEN [tag |-> "err", inner |-> slot]
    ELSE LET r == EncoderWrite(slot, data, ioOk) IN
         IF r.ok THEN [tag |-> "ok", inner |-> r.e]
         ELSE [tag |-> "err", inner |-> r.e]

NoOp == [op |-> "none", tag |-> "none", level |-> U32(0, 0), data |-> <<>>,
         before |-> NoEncoder, prior |-> 0]

----------------------------------------------------------------------------
(* SpecEncode: one worker's compressor driven through the adapter with     *)
(* every combination of arguments.                                         *)

NoCall == [op |-> "none", tag |-> "none", level |-> U32(0, 0), dict |-> NoDict,
           data |-> <<>>, is_last |-> FALSE, cfg |-> "ok", cmpOk |-> TRUE,
           out |-> <<>>, calls |-> <<>>, before |-> NoCompressor]

InitSyncIdle ==
    /\ inner = NoEncoder
    /\ wop = NoOp
    /\ callerSink = [some |-> FALSE, bytes |-> <<>>]
    /\ finishCalls = 0
    /\ finalized = 0
    /\ nwrites = 0

InitParIdle ==
    /\ phase = "init"
    /\ stream = [level |-> U32(0, 1), dict |-> NoDict]
    /\ input = <<>>
    /\ comp = [w \in 1 .. NWorkers |-> NoCompressor]
    /\ holding = [w \in 1 .. NWorkers |-> 0]
    /\ encoded = <<>>
    /\ done = {}
    /\ written = 0
    /\ out = <<>>
    /\ log = <<>>

InitEncIdle ==
    /\ encoder = NoCompressor
    /\ call = NoCall
    /\ ncalls = 0

InitEncode == InitEncIdle /\ InitSyncIdle /\ InitParIdle

Panicked == call.tag = "panic"

CreateCompressor ==
    /\ ~Panicked
    /\ ncalls < MaxCalls
    /\ ~encoder.made
    /\ \E lv \in LevelVals, cfg \in CfgOutcomes :
         LET r == create_compressor(lv, cfg) IN
         /\ encoder' = r.c
         /\ call' = [NoCall EXCEPT !.op = "create_compressor", !.tag = r.tag,
                                   !.level = lv, !.cfg = cfg,
                                   !.before = encoder]
    /\ ncalls' = ncalls + 1
    /\ UNCHANGED <<syncVars, parVars>>

Encode ==
    /\ ~Panicked
    /\ ncalls < MaxCalls
    /\ encoder.made
    /\ \E data \in BlockData, lv \in LevelVals, d \in DictVals,
          is_last \in BOOLEAN, cfg \in CfgOutcomes, cmpOk \in BOOLEAN :
         LET r == encode(data, encoder, lv, d, is_last, cfg, cmpOk) IN
         /\ encoder' = r.c
         /\ call' = [op |-> "encode", tag |-> r.tag, level |-> lv, dict |-> d,
                     data |-> data, is_last |-> is_last, cfg |-> cfg,
                     cmpOk |-> cmpOk, out |-> r.out, calls |-> r.calls,
                     before |-> encoder]
    /\ ncalls' = ncalls + 1
    /\ UNCHANGED <<syncVars, parVars>>

NextEncode == CreateCompressor \/ Encode

SpecEncode == InitEncode /\ [][NextEncode]_vars

----------------------------------------------------------------------------
(* SpecSync: one synchronous writer, from construction on.                 *)

InitSinks == { <<>>, <<9>> }

InitSync == InitEncIdle /\ InitSyncIdle /\ InitParIdle

WriterPanicked == wop.tag = "panic"

\* Number of earlier successful finish() calls.
PriorOk == IF callerSink.some THEN 1 ELSE 0

SyncWriter ==
    /\ wop.op = "none"
    /\ \E w \in InitSinks, lv \in LevelVals, newOk \in BOOLEAN :
         LET r == sync_writer(w, lv, newOk) IN
         /\ inner' = r.e
         /\ wop' = [NoOp EXCEPT !.op = "sync_writer", !.tag = r.tag,
                                !.level = lv, !.data = w]
    /\ UNCHANGED <<callerSink, finishCalls, finalized, nwrites>>
    /\ UNCHANGED <<encVars, parVars>>

Write ==
    /\ wop.op # "none"
    /\ ~WriterPanicked
    /\ nwrites < MaxWrites
    /\ \E data \in BlockData \ {<<>>}, ioOk \in BOOLEAN :
         LET r == write(inner, data, ioOk) IN
         /\ inner' = r.inner
         /\ wop' = [NoOp EXCEPT !.op = "write", !.tag = r.tag, !.data = data,
                                !.before = inner, !.prior = PriorOk]
    /\ nwrites' = nwrites + 1
    /\ UNCHANGED <<callerSink, finishCalls, finalized>>
    /\ UNCHANGED <<encVars, parVars>>

Finish ==
    /\ wop.op # "none"
    /\ ~WriterPanicked
    /\ finishCalls < MaxFinish
    /\ \E ioOk \in BOOLEAN :
         LET r == finish(inner, ioOk) IN
         /\ inner' = r.inner
         /\ wop' = [NoOp EXCEPT !.op = "finish", !.tag = r.tag,
                                !.before = inner, !.prior = PriorOk]
         /\ callerSink' = IF r.ret.some THEN r.ret ELSE callerSink
         /\ finalized' = finalized + r.ran
    /\ finishCalls' = finishCalls + 1
    /\ UNCHANGED nwrites
    /\ UNCHANGED <<encVars, parVars>>

NextSync == SyncWriter \/ Write \/ Finish

SpecSync == InitSync /\ [][NextSync]_vars

----------------------------------------------------------------------------
(* SpecPar: one stream of the block-parallel engine. The engine asks for   *)
(* the header once, creates one compressor per worker, hands the blocks    *)
(* out in input order, lets the workers encode concurrently, writes the    *)
(* encoded blocks in input order and ends with the footer.                 *)

Workers == 1 .. NWorkers

InitPar == InitEncIdle /\ InitSyncIdle /\ InitParIdle

\* The dictionary the engine passes to encode: only when needs_dict().
PassedDict == IF needs_dict THEN stream.dict ELSE NoDict

RECURSIVE Flatten(_)
Flatten(blocks) ==
    IF blocks = <<>> THEN <<>>
    ELSE Head(blocks).data \o Flatten(Tail(blocks))

\* The combined check value handed to footer.
CheckOf(blocks) == Len(Flatten(blocks))

StartStream ==
    /\ phase = "init"
    /\ \E sc \in StreamConfigs, cfgs \in [Workers -> {"ok", "level_fails"}] :
         LET lv == sc.level
             r  == [w \in Workers |-> create_compressor(lv, cfgs[w])] IN
         /\ stream' = sc
         /\ IF \E w \in Workers : r[w].tag = "panic"
            THEN phase' = "panicked" /\ UNCHANGED <<comp, out>>
            ELSE IF \E w \in Workers : r[w].tag = "err"
            THEN phase' = "failed" /\ UNCHANGED <<comp, out>>
            ELSE /\ phase' = "running"
                 /\ comp' = [w \in Workers |-> r[w].c]
                 /\ out' = out \o header(lv)
    /\ UNCHANGED <<input, holding, encoded, done, written, log>>
    /\ UNCHANGED <<encVars, syncVars>>

LastTaken == input # <<>> /\ input[Len(input)].is_last

Take(w) ==
    /\ phase = "running"
    /\ holding[w] = 0
    /\ Len(input) < MaxBlocks
    /\ ~LastTaken
    /\ \E data \in ParData, lv \in ParLevels, is_last \in BOOLEAN :
         input' = Append(input, [data |-> data, level |-> lv,
                                 is_last |-> is_last])
    /\ holding' = [holding EXCEPT ![w] = Len(input) + 1]
    /\ UNCHANGED <<phase, stream, comp, encoded, done, written, out, log>>
    /\ UNCHANGED <<encVars, syncVars>>

EncodeBlock(w) ==
    /\ phase = "running"
    /\ holding[w] # 0
    /\ \E cfg \in {"ok", "level_fails"}, cmpOk \in BOOLEAN :
         LET i == holding[w]
             b == input[i]
             r == encode(b.data, comp[w], b.level, PassedDict, b.is_last,
                         cfg, cmpOk)
         IN /\ comp' = [comp EXCEPT ![w] = r.c]
            /\ log' = (i :> [dict |-> PassedDict, calls |-> r.calls,
                             tag |-> r.tag]) @@ log
            /\ IF r.tag = "ok"
               THEN /\ encoded' = (i :> r.out) @@ encoded
                    /\ done' = done \cup {i}
                    /\ UNCHANGED phase
               ELSE /\ phase' = IF r.tag = "panic" THEN "panicked" ELSE "aborted"
                    /\ UNCHANGED <<encoded, done>>
    /\ holding' = [holding EXCEPT ![w] = 0]
    /\ UNCHANGED <<stream, input, written, out>>
    /\ UNCHANGED <<encVars, syncVars>>

WriteBlock ==
    /\ phase = "running"
    /\ written + 1 \in done
    /\ out' = out \o encoded[written + 1]
    /\ written' = written + 1
    /\ UNCHANGED <<phase, stream, input, comp, holding, encoded, done, log>>
    /\ UNCHANGED <<encVars, syncVars>>

FinishStream ==
    /\ phase = "running"
    /\ \A w \in Workers : holding[w] = 0
    /\ written = Len(input)
    /\ out' = out \o footer(CheckOf(input))
    /\ phase' = "finished"
    /\ UNCHANGED <<stream, input, comp, holding, encoded, done, written, log>>
    /\ UNCHANGED <<encVars, syncVars>>

Abort ==
    /\ phase = "running"
    /\ phase' = "aborted"
    /\ UNCHANGED <<stream, input, comp, holding, encoded, done, written, out, log>>
    /\ UNCHANGED <<encVars, syncVars>>

NextPar ==
    \/ StartStream
    \/ \E w \in Workers : Take(w)
    \/ \E w \in Workers : EncodeBlock(w)
    \/ WriteBlock
    \/ FinishStream
    \/ Abort

SpecPar == InitPar /\ [][NextPar]_vars

----------------------------------------------------------------------------
(* Properties of the adapter calls (SpecEncode) *)

\* C2: for every u32 level create_compressor returns a compressor or an
\* error value, and a level that does not fit the native i32 domain yields
\* the error value, never a panic.
C2_CreateReturnsResult ==
    call.op = "create_compressor" =>
        /\ call.tag \in {"ok", "err"}
        /\ ~TryInto(call.level).ok => call.tag = "err"

\* C6: no failure in encode or sync_writer becomes a panic: a failed level
\* conversion or a failed native construction / compression is an error
\* result of the failing operation.
C6_NoFailureAborts ==
    /\ call.op = "encode" => call.tag \in {"ok", "err"}
    /\ wop.op = "sync_writer" => wop.tag \in {"ok", "err"}

ReconfigStep(d) == IF d.some THEN "set_dictionary" ELSE "set_compression_level"

----------------------------------------------------------------------------
(* Properties of the synchronous writer (SpecSync) *)

\* C1: after one successful finish(), a second finish() returns an error
\* result (no panic, no silent success) and no trailing bytes are emitted a
\* second time.
C1_SecondFinishIsError ==
    (wop.op = "finish" /\ wop.prior >= 1) =>
        /\ wop.tag = "err"
        /\ finalized = 1

\* What the first finish() hands back: the original sink followed by the
\* one frame of everything written.
FinishedSink(e) == e.sink \o Frame(e.level, <<>>, e.buf)

\* C4 as stated: the first finish() on an Open writer finalizes the encoder
\* exactly once, returns the original sink and closes the writer; a Closed
\* writer never reopens.
C4_FinishReturnsSink ==
    /\ finishCalls > 0 => ~inner.some
    /\ finalized <= 1
    /\ (wop.op = "write" /\ wop.before.some) => inner.some
    /\ (wop.op = "finish" /\ wop.before.some) =>
           /\ finalized = 1
           /\ wop.tag = "ok"
           /\ callerSink = Returned(FinishedSink(wop.before))

\* C4 amended: the first finish() on an Open writer runs the encoder's
\* finish exactly once and closes the writer (inner slot emptied) whatever
\* the outcome; it returns the original sink, with the frame completed, when
\* the encoder's finish succeeds and an error (without the sink) when it
\* fails; writes keep the writer Open; once finish has been called the
\* writer is never Open again.
C4_Lifecycle ==
    /\ finishCalls > 0 => ~inner.some
    /\ finalized <= 1
    /\ (wop.op = "write" /\ wop.before.some) => inner.some
    /\ (wop.op = "finish" /\ wop.before.some) =>
           /\ finalized = 1
           /\ wop.tag \in {"ok", "err"}
           /\ wop.tag = "ok" => callerSink = Returned(FinishedSink(wop.before))
           /\ wop.tag = "err" => ~callerSink.some

\* C4 witness: a writer that took a write was finished successfully.
C4_Witness ==
    /\ wop.op = "finish" /\ wop.tag = "ok"
    /\ wop.before.some /\ wop.before.buf # <<>>
    /\ ~inner.some /\ callerSink.some

\* C5: after finish() has been called every write fails, and the sink that
\* finish() returned receives no further bytes.
C5_WriteAfterFinishFails ==
    /\ [](wop.op = "write" /\ finishCalls > 0 => wop.tag = "err")
    /\ [][callerSink.some => callerSink' = callerSink]_vars

\* C5 witness: a write was attempted after a successful finish().
C5_Witness ==
    /\ wop.op = "write" /\ wop.prior = 1 /\ finishCalls > 0
    /\ callerSink.some

----------------------------------------------------------------------------
(* Properties of the block-parallel stream (SpecPar) *)

FreshCompressor == create_compressor(stream.level, "ok").c

\* The stream a single sequential worker produces for the blocks, in order.
RECURSIVE SeqEncode(_, _)
SeqEncode(blocks, c) ==
    IF blocks = <<>> THEN <<>>
    ELSE LET b == Head(blocks)
             r == encode(b.data, c, b.level, PassedDict, b.is_last, "ok", TRUE)
         IN r.out \o SeqEncode(Tail(blocks), r.c)

\* The encoded blocks written so far, concatenated in input order.
RECURSIVE WrittenBytes(_)
WrittenBytes(n) ==
    IF n = 0 THEN <<>> ELSE WrittenBytes(n - 1) \o encoded[n]

\* C3: round trip with block independence: a finished stream, header ++
\* encoded blocks in input order ++ footer, decompresses to exactly the
\* concatenation S of the blocks, and so does the stream that holds S as
\* one single block.
C3_RoundTrip ==
    phase = "finished" =>
        LET S   == Flatten(input)
            one == encode(S, FreshCompressor, stream.level, PassedDict, TRUE,
                          "ok", TRUE).out
        IN /\ Decode(out) = [ok |-> TRUE, data |-> S]
           /\ Decode(header(stream.level) \o one \o footer(CheckOf(input)))
                = [ok |-> TRUE, data |-> S]

\* C3 witness: a finished stream of two different non-empty blocks.
C3_Witness ==
    /\ phase = "finished" /\ Len(input) >= 2
    /\ input[1].data = <<0, 255>> /\ input[2].data = <<255>>
    /\ input[1].level # input[2].level

\* C8: the bytes produced for a block depend only on the block's input,
\* level and dictionary, whichever worker encoded it and whatever that
\* worker's compressor encoded before; the reassembled stream equals the
\* one a single sequential worker produces.
C8_WorkerIndependent ==
    /\ \A i \in done :
          /\ encoded[i] = Frame(TryInto(input[i].level).v, PassedDict.v,
                                input[i].data)
          /\ encoded[i] = encode(input[i].data, FreshCompressor, input[i].level,
                                 PassedDict, input[i].is_last, "ok", TRUE).out
    /\ phase = "finished" =>
          out = header(stream.level) \o SeqEncode(input, FreshCompressor)
                  \o footer(CheckOf(input))

\* C8 witness: two blocks of different levels on different workers, the
\* second block encoded while the first is still being encoded, by a
\* compressor created at yet another level.
C8_Witness ==
    /\ phase = "running" /\ Len(input) >= 2
    /\ 2 \in done /\ 1 \notin done
    /\ \E w \in Workers : holding[w] = 1
    /\ input[1].level # input[2].level
    /\ input[2].level # stream.level
    /\ input[2].data # <<>>

\* C9: header and footer are empty for every level and every check value,
\* so in every state of a stream the emitted bytes are exactly the encoded
\* blocks written so far, in order; an aborted stream carries no header or
\* trailer bytes.
C9_NoFraming ==
    /\ \A lv \in LevelVals : header(lv) = <<>>
    /\ \A c \in CheckVals : footer(c) = <<>>
    /\ out = WrittenBytes(written)

\* C9 witness: a stream aborted after a block had been written.
C9_Witness ==
    /\ phase = "aborted" /\ written >= 1 /\ out # <<>>

\* C10: needs_dict() is false, so the engine never passes a dictionary to
\* encode: the dictionary branch is never taken and every block is
\* compressed after re-applying the level only; encode's result does not
\* depend on is_last.
C10_NoDictionary ==
    /\ ~needs_dict
    /\ \A i \in DOMAIN log :
          /\ ~log[i].dict.some
          /\ \A k \in 1 .. Len(log[i].calls) : log[i].calls[k] # "set_dictionary"
          /\ log[i].tag = "ok" =>
                log[i].calls = <<"set_compression_level", "compress">>
          /\ \A cmpOk \in BOOLEAN :
                encode(input[i].data, FreshCompressor, input[i].level,
                       log[i].dict, TRUE, "ok", cmpOk)
                  = encode(input[i].data, FreshCompressor, input[i].level,
                           log[i].dict, FALSE, "ok", cmpOk)

\* C10 witness: a stream configured with a dictionary whose last block was
\* encoded.
C10_Witness ==
    /\ stream.dict.some
    /\ \E i \in done : input[i].is_last /\ log[i].tag = "ok"

====
